---- MODULE Spec2Model ----
(***************************************************************************)
(* Node-agent reconciliation of the logging operator                       *)
(* (pkg/resources/nodeagent/nodeagent.go).                                 *)
(*                                                                         *)
(* Reconciler.Reconcile walks the parent's node-agent entries in order.    *)
(* For each entry it merges the Base defaults and then one platform        *)
(* profile into the entry (mergo.Merge, in place), and runs the entry      *)
(* through the ten resource factories, applying each desired object with   *)
(* ReconcileResource and stopping at the first requeue signal or error.    *)
(*                                                                         *)
(* Representation of Go values:                                            *)
(*   pointer          <<>> is nil, <<v>> points to v                       *)
(*   *v1beta1.NodeAgent (an entry of NodeAgents) the record it points to,  *)
(*                    or NilAgent for a nil pointer                        *)
(*   map[string]string a set of <<key, value>> pairs, at most one per key  *)
(*   []v1.Toleration  the id of a backing array in heap ("nil": nil slice);*)
(*                    two slices with one id share their elements          *)
(*   []v1.Container   a sequence (the Base array is fresh for every call   *)
(*                    of NodeAgentFluentbitDefaults, so it is never shared *)
(*                    with another entry or with a profile)                *)
(***************************************************************************)
EXTENDS Integers, Sequences, FiniteSets, TLC

VARIABLES
    nodeAgents,   \* r.Logging.Spec.NodeAgents: the parent's entries, merged in place
    heap,         \* backing arrays of the toleration slices, by array id
    pc,           \* position of the pass
    idx,          \* index of the entry being processed (range loop of Reconciler.Reconcile)
    fac,          \* index of the factory being processed (range loop of nodeAgentInstance.Reconcile)
    constructed,  \* factory calls of this pass, in order: [entry, factory, name, out]
    applied,      \* ReconcileResource calls of this pass, in order: [entry, factory, name, out]
    result,       \* the *reconcile.Result returned by the pass: <<>> is nil
    err,          \* the error returned by the pass: <<>> is nil
    instanceRet,  \* the last return of instance.Reconcile in this pass: [entry, result, err]
    merges,       \* mergo.Merge calls of this pass, in order: [entry, profile, dst, after, heap]
    before,       \* the entries as they were when the pass started
    cluster,      \* the apply primitive: the desired object it holds applied, by resource
    produced,     \* the factories: what each returned, and for which instance
    requeuesLeft, \* the apply primitive: the requeue signals it may still report
    prevContinue, \* the call of Reconciler.Reconcile before this one returned nil, nil
    parents,      \* concurrent calls: the NodeAgents of the parent of each call
    run           \* concurrent calls: the position, inputs and return of each call

vars == <<nodeAgents, heap, pc, idx, fac, constructed, applied, result, err,
          instanceRet, merges, before, cluster, produced, requeuesLeft, prevContinue,
          parents, run>>

\* The state of one call of Reconciler.Reconcile and of what it has logged.
passVars == <<nodeAgents, pc, idx, fac, constructed, applied, result, err,
              instanceRet, merges, before>>

\* The state of the collaborators of a pass that retries: the factories and the
\* apply primitive.
envVars == <<cluster, produced, requeuesLeft, prevContinue>>

\* The state of the calls that run concurrently.
concVars == <<parents, run>>

----------------------------------------------------------------------------
(* Bounds *)

MaxAgents == 2

\* The requeue signals the apply primitive reports before every resource is
\* steady ("finitely many").
MaxRequeues == 2

----------------------------------------------------------------------------
(* The fixed factory list of nodeAgentInstance.Reconcile *)

\* The list with the cluster role bound before it is created.
FactoriesSwapped ==
    << "serviceAccount", "clusterRoleBinding", "clusterRole",
       "clusterPodSecurityPolicy", "pspClusterRole", "pspClusterRoleBinding",
       "configSecret", "daemonSet", "serviceMetrics", "monitorServiceMetrics" >>

Factories ==
    << "serviceAccount", "clusterRole", "clusterRoleBinding",
       "clusterPodSecurityPolicy", "pspClusterRole", "pspClusterRoleBinding",
       "configSecret", "daemonSet", "serviceMetrics", "monitorServiceMetrics" >>

NumFactories == Len(Factories)

\* The resources of a parent: one for each factory of each entry.
ResourceKeys == (1..MaxAgents) \X (1..NumFactories)

\* What a factory call can return: an object, a nil object, or an error.
FactoryOutcomes == {"obj", "nilobj", "err"}

\* The non-nil results ReconcileResource can return.
RequeueSignals == {"Requeue", "RequeueAfter"}

\* What ReconcileResource can return: (nil, nil), (result, nil), (nil, err), or
\* a result together with an error ("errWithResult"), which its type allows.
ApplyOutcomes == {"ok", "err", "errWithResult"} \cup RequeueSignals

\* The returns of ReconcileResource that carry an error.
ApplyErrors == {"err", "errWithResult"}

----------------------------------------------------------------------------
(* Go values *)

Nil == <<>>

Ptr(v) == <<v>>

\* A nil *v1beta1.NodeAgent in the parent's list of entries.
NilAgent == [ IsNil |-> TRUE ]

NilSlice == "nil"

WinArr == "win"

\* The id of the toleration array the user gave entry p.
EntryArr(p) == ToString(p)

ArrIds == {WinArr} \cup {EntryArr(p) : p \in 1..MaxAgents}

\* len(slice)
SliceLen(s, h) == IF s = NilSlice THEN 0 ELSE Len(h[s])

\* The elements of a slice.
Elems(s, h) == IF s = NilSlice THEN <<>> ELSE h[s]

MapKeys(m) == {kv[1] : kv \in m}

MapGet(m, key) == (CHOOSE kv \in m : kv[1] = key)[2]

----------------------------------------------------------------------------
(* The three defaults profiles *)

ZeroSecurity ==
    [ ServiceAccount |-> "", RoleBasedAccessControlCreate |-> Nil ]

ZeroDaemonSet ==
    [ NodeSelector |-> {}, Tolerations |-> NilSlice, Containers |-> <<>> ]

ZeroFluentbit ==
    [ Flush |-> 0, LogLevel |-> "", MountPath |-> "", StoragePath |-> "",
      Security |-> Nil, DaemonSetOverrides |-> Nil ]

ZeroNodeAgent ==
    [ Name |-> "", Type |-> "", FluentbitSpec |-> Nil ]

NodeAgentFluentbitDefaults ==
    [ ZeroNodeAgent EXCEPT !.FluentbitSpec = Ptr(
        [ Flush |-> 1,
          LogLevel |-> "info",
          MountPath |-> "/var/lib/docker/containers",
          StoragePath |-> "/buffers",
          Security |-> Ptr([ ServiceAccount |-> "",
                             RoleBasedAccessControlCreate |-> Ptr(TRUE) ]),
          DaemonSetOverrides |-> Ptr(
            [ NodeSelector |-> {},
              Tolerations |-> NilSlice,
              Containers |-> << [ Name |-> "fluent-bit",
                                  Image |-> "fluent/fluent-bit:1.6.8" ] >> ]) ]) ]

NodeAgentFluentbitWindowsDefaults ==
    [ ZeroNodeAgent EXCEPT !.FluentbitSpec = Ptr(
        [ ZeroFluentbit EXCEPT
            !.MountPath = "C:\\ProgramData\\docker",
            !.DaemonSetOverrides = Ptr(
                [ NodeSelector |-> { <<"kubernetes.io/os", "windows">> },
                  Tolerations |-> WinArr,
                  Containers |-> <<>> ]),
            !.Flush = 2 ]) ]

NodeAgentFluentbitLinuxDefaults ==
    [ ZeroNodeAgent EXCEPT !.FluentbitSpec = Ptr([ ZeroFluentbit EXCEPT !.Flush = 3 ]) ]

\* The elements of the Windows profile's toleration literal.
WindowsTolerations ==
    << [ Key |-> "os", Operator |-> "Equal", Value |-> "windows", Effect |-> "NoSchedule" ] >>

\* The sub-structures of an entry, a nil pointer read as the zero structure.
FluentbitOf(a) ==
    IF a.FluentbitSpec = Nil THEN ZeroFluentbit ELSE a.FluentbitSpec[1]

SecurityOf(a) ==
    IF FluentbitOf(a).Security = Nil THEN ZeroSecurity ELSE FluentbitOf(a).Security[1]

DaemonSetOf(a) ==
    IF FluentbitOf(a).DaemonSetOverrides = Nil THEN ZeroDaemonSet
    ELSE FluentbitOf(a).DaemonSetOverrides[1]

----------------------------------------------------------------------------
(* mergo.Merge(dst, src) without options, as Reconciler.Reconcile calls it. *)
(* mergo is an imported library: the operators below state what its merge   *)
(* does, one per kind of value. The merge walks dst and src in step. It     *)
(* never overwrites a non-zero scalar, it goes through a pointer that is    *)
(* set in both (the platform profiles rely on that: they set fields under   *)
(* FluentbitSpec and DaemonSetOverrides, which Base has always set before), *)
(* it merges maps key by key, and it assigns a pointer or a slice of src to *)
(* an unset field of dst without copying what it refers to.                 *)

\* string, by the default case: an empty dst takes a non-empty src.
MergeString(dst, src) == IF dst = "" /\ src # "" THEN src ELSE dst

\* The merge of an int32 with src overriding dst.
MergeIntOverwrite(dst, src) == IF src # 0 THEN src ELSE dst

\* int32, by the default case: a zero dst takes a non-zero src.
MergeInt(dst, src) == IF dst = 0 /\ src # 0 THEN src ELSE dst

\* bool, by the default case: a false dst takes a true src.
MergeBool(dst, src) == IF dst = FALSE /\ src # FALSE THEN src ELSE dst

\* *bool: a nil src changes nothing, a nil dst takes src, and two non-nil
\* pointers are merged through (the pointed-to bools by the default case).
MergeBoolPtr(dst, src) ==
    IF src = Nil THEN dst
    ELSE IF dst = Nil THEN src
    ELSE Ptr(MergeBool(dst[1], src[1]))

\* The merge of a map that only fills an empty map.
MergeMapWholesale(dst, src) == IF dst = {} THEN src ELSE dst

\* map[string]string: every key of src that dst lacks, or holds with an
\* empty value, is set in dst; the other keys of dst are kept.
MergeMap(dst, src) ==
    { kv \in dst : ~(kv[1] \in MapKeys(src) /\ kv[2] = "") }
        \cup { kv \in src : kv[1] \notin MapKeys(dst) \/ MapGet(dst, kv[1]) = "" }

\* []v1.Toleration: an empty dst takes the slice header of a non-empty src,
\* and with it src's backing array.
MergeTolerations(dst, src, h) ==
    IF SliceLen(src, h) # 0 /\ SliceLen(dst, h) = 0 THEN src ELSE dst

\* The merge of a slice that appends src to dst.
MergeContainersAppend(dst, src) == dst \o src

\* []v1.Container: an empty dst takes a non-empty src.
MergeContainers(dst, src) ==
    IF Len(src) # 0 /\ Len(dst) = 0 THEN src ELSE dst

\* v1beta1.Security, field by field.
MergeSecurity(dst, src) ==
    [ ServiceAccount |-> MergeString(dst.ServiceAccount, src.ServiceAccount),
      RoleBasedAccessControlCreate |->
          MergeBoolPtr(dst.RoleBasedAccessControlCreate, src.RoleBasedAccessControlCreate) ]

\* The merge of the pointer that stops at a pointer dst has set.
MergeSecurityPtrShallow(dst, src) ==
    IF dst = Nil THEN src ELSE dst

\* *v1beta1.Security
MergeSecurityPtr(dst, src) ==
    IF src = Nil THEN dst
    ELSE IF dst = Nil THEN src
    ELSE Ptr(MergeSecurity(dst[1], src[1]))

\* typeoverride.DaemonSet, field by field.
MergeDaemonSet(dst, src, h) ==
    [ NodeSelector |-> MergeMap(dst.NodeSelector, src.NodeSelector),
      Tolerations |-> MergeTolerations(dst.Tolerations, src.Tolerations, h),
      Containers |-> MergeContainers(dst.Containers, src.Containers) ]

\* *typeoverride.DaemonSet
MergeDaemonSetPtr(dst, src, h) ==
    IF src = Nil THEN dst
    ELSE IF dst = Nil THEN src
    ELSE Ptr(MergeDaemonSet(dst[1], src[1], h))

\* v1beta1.NodeAgentFluentbit, field by field.
MergeFluentbit(dst, src, h) ==
    [ Flush |-> MergeInt(dst.Flush, src.Flush),
      LogLevel |-> MergeString(dst.LogLevel, src.LogLevel),
      MountPath |-> MergeString(dst.MountPath, src.MountPath),
      StoragePath |-> MergeString(dst.StoragePath, src.StoragePath),
      Security |-> MergeSecurityPtr(dst.Security, src.Security),
      DaemonSetOverrides |->
          MergeDaemonSetPtr(dst.DaemonSetOverrides, src.DaemonSetOverrides, h) ]

\* The merge of the pointer that stops at a pointer dst has set.
MergeFluentbitPtrShallow(dst, src, h) ==
    IF dst = Nil THEN src ELSE dst

\* *v1beta1.NodeAgentFluentbit
MergeFluentbitPtr(dst, src, h) ==
    IF src = Nil THEN dst
    ELSE IF dst = Nil THEN src
    ELSE Ptr(MergeFluentbit(dst[1], src[1], h))

\* mergo.Merge(dst, src) returns an error, and leaves dst alone, when dst is
\* a nil pointer: it has no struct to merge into. The three profiles are
\* non-nil pointers of dst's type, so nothing else fails.
MergeFails(dst) == dst = NilAgent

\* mergo.Merge(a, profile) on two v1beta1.NodeAgent values: the new value of a.
Merge(dst, src, h) ==
    [ Name |-> MergeString(dst.Name, src.Name),
      Type |-> MergeString(dst.Type, src.Type),
      FluentbitSpec |-> MergeFluentbitPtr(dst.FluentbitSpec, src.FluentbitSpec, h) ]

\* The switch selecting the Linux profile by name and the Windows profile
\* by default.
PlatformNameLinuxByName(a) == IF a.Type = "linux" THEN "Linux" ELSE "Windows"

\* The platform profile selected by the switch on a.Type.
PlatformName(a) == IF a.Type = "windows" THEN "Windows" ELSE "Linux"

ProfileByName(p) ==
    CASE p = "Base" -> NodeAgentFluentbitDefaults
      [] p = "Windows" -> NodeAgentFluentbitWindowsDefaults
      [] p = "Linux" -> NodeAgentFluentbitLinuxDefaults

----------------------------------------------------------------------------
(* The parent resources a pass can start from *)

AgentName(p) == "agent" \o ToString(p)

\* The FluentbitSpec a user can give entry p.
UserFluentbit(shape, p) ==
    CASE shape \in {"empty", "nil"} -> Nil
      [] shape = "account" ->
            Ptr([ ZeroFluentbit EXCEPT
                    !.Flush = 7,
                    !.Security = Ptr([ ZeroSecurity EXCEPT !.ServiceAccount = "sa" ]) ])
      [] shape = "norbac" ->
            Ptr([ ZeroFluentbit EXCEPT !.Security =
                    Ptr([ ZeroSecurity EXCEPT !.RoleBasedAccessControlCreate = Ptr(FALSE) ]) ])
      [] shape = "selector" ->
            Ptr([ ZeroFluentbit EXCEPT !.DaemonSetOverrides =
                    Ptr([ ZeroDaemonSet EXCEPT !.NodeSelector = { <<"pool", "infra">> } ]) ])
      [] shape = "custom" ->
            Ptr([ ZeroFluentbit EXCEPT
                    !.MountPath = "/custom",
                    !.DaemonSetOverrides =
                        Ptr([ NodeSelector |-> {},
                              Tolerations |-> EntryArr(p),
                              Containers |-> << [ Name |-> "fluent-bit", Image |-> "custom" ] >> ]) ])

\* The elements of the toleration slice a user can give entry p.
UserTolerations(shape) ==
    IF shape = "custom"
    THEN << [ Key |-> "dedicated", Operator |-> "Exists", Value |-> "", Effect |-> "NoSchedule" ] >>
    ELSE <<>>

\* The user specs: a shape of FluentbitSpec and a platform discriminator
\* ("windows", or a value that selects the Linux profile); the shape "nil" is
\* a nil entry.
UserSpecs ==
    { <<"empty", "">>, <<"empty", "windows">>, <<"account", "linux">>,
      <<"norbac", "">>, <<"selector", "windows">>, <<"custom", "windows">>,
      <<"nil", "">> }

UserAgent(u, p) ==
    IF u[1] = "nil" THEN NilAgent
    ELSE [ Name |-> AgentName(p), Type |-> u[2],
           FluentbitSpec |-> UserFluentbit(u[1], p) ]

----------------------------------------------------------------------------
(* Names *)

\* r.Logging.Name: the name of the parent resource.
LoggingName == "logging"

defaultServiceAccountName == "fluentbit"

\* fmt.Sprintf("%s-%s-%s", n.logging.Name, n.nodeAgent.Name, name)
QualifiedName(a, name) == LoggingName \o "-" \o a.Name \o "-" \o name

\* What a read through a nil pointer ends in.
NilDereference == "panic: nil pointer dereference"

\* getServiceAccount without its test for a service account of the user.
getServiceAccountDefaultOnly(a) ==
    IF a.FluentbitSpec = Nil \/ a.FluentbitSpec[1].Security = Nil THEN NilDereference
    ELSE QualifiedName(a, defaultServiceAccountName)

\* getServiceAccount of the instance built from entry a: it reads
\* n.nodeAgent.FluentbitSpec.Security.ServiceAccount through both pointers.
getServiceAccount(a) ==
    IF a.FluentbitSpec = Nil \/ a.FluentbitSpec[1].Security = Nil THEN NilDereference
    ELSE IF a.FluentbitSpec[1].Security[1].ServiceAccount # ""
         THEN a.FluentbitSpec[1].Security[1].ServiceAccount
         ELSE QualifiedName(a, defaultServiceAccountName)

----------------------------------------------------------------------------
(* Errors and returns *)

\* The error of mergo.Merge, returned as it is.
MergeError == [ Msg |-> "only structs and maps are supported" ]

\* errors.WrapIf(err, "failed to create desired object")
CreateError == [ Msg |-> "failed to create desired object", Resource |-> "" ]

\* errors.Errorf("Reconcile error! Resource %#v returns with nil object", factory)
NilObjectError == [ Msg |-> "Reconcile error! Resource returns with nil object", Resource |-> "" ]

\* errors.WrapWithDetails(err, "failed to reconcile resource", "resource", kind)
ResourceError(k) == [ Msg |-> "failed to reconcile resource", Resource |-> Factories[k] ]

\* errors.WrapWithDetails(err, "failed to reconcile instances", "NodeName", a.Name)
InstanceError(e, a) ==
    [ Msg |-> "failed to reconcile instances", NodeName |-> a.Name, Cause |-> e ]

\* The loop without its check for a nil object.
AfterFactoryNoNilCheck(out, k) ==
    IF out = "err" THEN [ stop |-> TRUE, result |-> Nil, err |-> Ptr(CreateError) ]
    ELSE [ stop |-> FALSE, result |-> Nil, err |-> Nil ]

\* The loop applying whatever the factory returned with its error.
AfterFactoryIgnoringError(out, k) ==
    IF out = "nilobj" THEN [ stop |-> TRUE, result |-> Nil, err |-> Ptr(NilObjectError) ]
    ELSE [ stop |-> FALSE, result |-> Nil, err |-> Nil ]

\* What nodeAgentInstance.Reconcile returns after the factory call of factory k
\* returned out; stop is FALSE when the loop goes on to ReconcileResource.
AfterFactory(out, k) ==
    IF out = "err" THEN [ stop |-> TRUE, result |-> Nil, err |-> Ptr(CreateError) ]
    ELSE IF out = "nilobj" THEN [ stop |-> TRUE, result |-> Nil, err |-> Ptr(NilObjectError) ]
    ELSE [ stop |-> FALSE, result |-> Nil, err |-> Nil ]

\* The loop without its check for a non-nil result.
AfterApplyIgnoringRequeue(out, k) ==
    IF out \in ApplyErrors THEN [ stop |-> TRUE, result |-> Nil, err |-> Ptr(ResourceError(k)) ]
    ELSE [ stop |-> FALSE, result |-> Nil, err |-> Nil ]

\* The loop handing on a result that came with an error.
AfterApplyKeepingResult(out, k) ==
    IF out \in ApplyErrors
    THEN [ stop |-> TRUE,
           result |-> IF out = "errWithResult" THEN Ptr("Requeue") ELSE Nil,
           err |-> Ptr(ResourceError(k)) ]
    ELSE IF out \in RequeueSignals THEN [ stop |-> TRUE, result |-> Ptr(out), err |-> Nil ]
    ELSE [ stop |-> FALSE, result |-> Nil, err |-> Nil ]

\* What nodeAgentInstance.Reconcile returns after ReconcileResource returned
\* out for factory k; stop is FALSE when the loop goes on: to the next factory,
\* or past the last one to the final return nil, nil.
AfterApply(out, k) ==
    IF out \in ApplyErrors THEN [ stop |-> TRUE, result |-> Nil, err |-> Ptr(ResourceError(k)) ]
    ELSE IF out \in RequeueSignals THEN [ stop |-> TRUE, result |-> Ptr(out), err |-> Nil ]
    ELSE [ stop |-> FALSE, result |-> Nil, err |-> Nil ]

\* The loop without its check for a non-nil result.
AfterInstanceIgnoringRequeue(res, e, a) ==
    IF e # Nil THEN [ stop |-> TRUE, result |-> Nil, err |-> Ptr(InstanceError(e[1], a)) ]
    ELSE [ stop |-> FALSE, result |-> Nil, err |-> Nil ]

\* The loop returning what the first instance returned, whatever it is.
AfterInstanceReturningFirst(res, e, a) ==
    IF e # Nil THEN [ stop |-> TRUE, result |-> Nil, err |-> Ptr(InstanceError(e[1], a)) ]
    ELSE [ stop |-> TRUE, result |-> res, err |-> Nil ]

\* The loop going on to the next entry after a failed one.
AfterInstanceSkippingFailed(res, e, a) ==
    IF e = Nil /\ res # Nil THEN [ stop |-> TRUE, result |-> res, err |-> Nil ]
    ELSE [ stop |-> FALSE, result |-> Nil, err |-> Nil ]

\* What Reconciler.Reconcile does with the return (res, e) of instance.Reconcile
\* for entry a; stop is FALSE when the loop goes on to the next entry, or past
\* the last one to the final return nil, nil.
AfterInstance(res, e, a) ==
    IF e # Nil THEN [ stop |-> TRUE, result |-> Nil, err |-> Ptr(InstanceError(e[1], a)) ]
    ELSE IF res # Nil THEN [ stop |-> TRUE, result |-> res, err |-> Nil ]
    ELSE [ stop |-> FALSE, result |-> Nil, err |-> Nil ]

----------------------------------------------------------------------------
(* The state machine *)

\* A Reconciler built for a parent, before its first call.
InitPass ==
    \E n \in 0..MaxAgents :
      \E u \in [1..n -> UserSpecs] :
        /\ nodeAgents = [ p \in 1..n |-> UserAgent(u[p], p) ]
        /\ heap = [ id \in ArrIds |->
                      IF id = WinArr THEN WindowsTolerations
                      ELSE IF \E p \in 1..n : id = EntryArr(p)
                           THEN UserTolerations(u[CHOOSE p \in 1..n : id = EntryArr(p)][1])
                           ELSE <<>> ]
        /\ pc = "idle"
        /\ idx = 0
        /\ fac = 0
        /\ constructed = <<>>
        /\ applied = <<>>
        /\ result = Nil
        /\ err = Nil
        /\ instanceRet = Nil
        /\ merges = <<>>
        /\ before = nodeAgents
        /\ cluster = [ key \in ResourceKeys |-> Nil ]
        /\ produced = [ key \in ResourceKeys |-> Nil ]
        /\ requeuesLeft = MaxRequeues
        /\ prevContinue = FALSE

Init ==
    /\ InitPass
    /\ parents = <<>>
    /\ run = <<>>

\* Reconciler.Reconcile returns (res, e).
Return(res, e) ==
    /\ pc' = "done"
    /\ result' = res
    /\ err' = e
    /\ UNCHANGED <<idx, fac>>

\* instance.Reconcile has returned (res, e) for the entry at idx: the rest of the
\* loop body of Reconciler.Reconcile, and the step to the next entry.
InstanceReturn(res, e) ==
    LET top == AfterInstance(res, e, nodeAgents[idx])
    IN  /\ instanceRet' = Ptr([ entry |-> idx, result |-> res, err |-> e ])
        /\ IF top.stop THEN Return(top.result, top.err)
           ELSE IF idx < Len(nodeAgents)
                THEN /\ pc' = "mergeBase"
                     /\ idx' = idx + 1
                     /\ UNCHANGED <<fac, result, err>>
                ELSE Return(Nil, Nil)

\* A call of Reconciler.Reconcile begins: with no entry it returns nil, nil.
BeginPass ==
    /\ pc \in {"idle", "done"}
    /\ before' = nodeAgents
    /\ constructed' = <<>>
    /\ applied' = <<>>
    /\ merges' = <<>>
    /\ fac' = 0
    /\ result' = Nil
    /\ err' = Nil
    /\ instanceRet' = Nil
    /\ IF Len(nodeAgents) = 0
       THEN pc' = "done" /\ idx' = 0
       ELSE pc' = "mergeBase" /\ idx' = 1
    /\ UNCHANGED <<nodeAgents, heap>>

\* A call of Reconciler.Reconcile, at any time no other call is running.
StartPass ==
    /\ BeginPass
    /\ UNCHANGED <<envVars, concVars>>

\* The merge made into the entry at idx and into every entry after it.
MergeIntoRest(profile) ==
    LET a == nodeAgents[idx]
        merged == Merge(a, ProfileByName(profile), heap)
    IN  /\ nodeAgents' =
              [ j \in 1..Len(nodeAgents) |->
                  IF j < idx \/ MergeFails(nodeAgents[j]) THEN nodeAgents[j]
                  ELSE Merge(nodeAgents[j], ProfileByName(profile), heap) ]
        /\ merges' = Append(merges, [ entry |-> idx, profile |-> profile,
                                       dst |-> a, after |-> merged, heap |-> heap ])

\* mergo.Merge(a, profile) on the entry at idx, in place.
MergeInto(profile) ==
    LET a == nodeAgents[idx]
        merged == Merge(a, ProfileByName(profile), heap)
    IN  /\ nodeAgents' = [nodeAgents EXCEPT ![idx] = merged]
        /\ merges' = Append(merges, [ entry |-> idx, profile |-> profile,
                                       dst |-> a, after |-> merged, heap |-> heap ])

\* err := mergo.Merge(a, NodeAgentFluentbitDefaults()), and the return of its
\* error.
MergeBase ==
    /\ pc = "mergeBase"
    /\ IF MergeFails(nodeAgents[idx])
       THEN /\ Return(Nil, Ptr(MergeError))
            /\ UNCHANGED <<nodeAgents, merges>>
       ELSE /\ MergeInto("Base")
            /\ pc' = "mergePlatform"
            /\ UNCHANGED <<idx, fac, result, err>>
    /\ UNCHANGED <<heap, constructed, applied, instanceRet, before>>
    /\ UNCHANGED <<envVars, concVars>>

\* switch a.Type: the merge of the Windows or of the Linux profile, the return
\* of its error, and the instance built from the entry.
MergePlatform ==
    /\ pc = "mergePlatform"
    /\ IF MergeFails(nodeAgents[idx])
       THEN /\ Return(Nil, Ptr(MergeError))
            /\ UNCHANGED <<nodeAgents, merges>>
       ELSE /\ MergeInto(PlatformName(nodeAgents[idx]))
            /\ pc' = "factory"
            /\ fac' = 1
            /\ UNCHANGED <<idx, result, err>>
    /\ UNCHANGED <<heap, constructed, applied, instanceRet, before>>
    /\ UNCHANGED <<envVars, concVars>>

\* o, state, err := factory() returning out, and the two early returns that
\* follow it.
ConstructOut(out) ==
    /\ pc = "factory"
    /\ LET r == AfterFactory(out, fac)
       IN  /\ constructed' = Append(constructed,
                                    [ entry |-> idx, factory |-> fac,
                                      name |-> Factories[fac], out |-> out ])
           /\ IF r.stop
              THEN InstanceReturn(r.result, r.err)
              ELSE pc' = "apply" /\ UNCHANGED <<idx, fac, result, err, instanceRet>>
    /\ UNCHANGED <<nodeAgents, heap, applied, merges, before>>

\* The factory call with a factory that may return anything.
Construct ==
    /\ \E out \in FactoryOutcomes : ConstructOut(out)
    /\ UNCHANGED <<envVars, concVars>>

\* result, err := n.reconciler.ReconcileResource(o, state) returning out, the
\* two early returns that follow it, and the step to the next factory.
ReconcileResourceOut(out) ==
    /\ pc = "apply"
    /\ LET r == AfterApply(out, fac)
       IN  /\ applied' = Append(applied,
                                [ entry |-> idx, factory |-> fac,
                                  name |-> Factories[fac], out |-> out ])
           /\ IF r.stop
              THEN InstanceReturn(r.result, r.err)
              ELSE IF fac < NumFactories
                   THEN /\ pc' = "factory"
                        /\ fac' = fac + 1
                        /\ UNCHANGED <<idx, result, err, instanceRet>>
                   ELSE InstanceReturn(Nil, Nil)
    /\ UNCHANGED <<nodeAgents, heap, constructed, merges, before>>

\* The apply call with a primitive that may return anything.
ReconcileResource ==
    /\ \E out \in ApplyOutcomes : ReconcileResourceOut(out)
    /\ UNCHANGED <<envVars, concVars>>

\* Code that holds a merged instance writes to an element of its toleration
\* slice in place (instance.nodeAgent is the parent's entry itself).
MutateInstance ==
    /\ pc = "done"
    /\ \E i \in 1..Len(nodeAgents) :
         LET a == nodeAgents[i]
         IN  /\ a # NilAgent
             /\ a.FluentbitSpec # Nil
             /\ a.FluentbitSpec[1].DaemonSetOverrides # Nil
             /\ LET tol == a.FluentbitSpec[1].DaemonSetOverrides[1].Tolerations
                IN  /\ SliceLen(tol, heap) > 0
                    /\ heap[tol][1].Key # "mutated"
                    /\ heap' = [heap EXCEPT ![tol][1].Key = "mutated"]
    /\ UNCHANGED <<nodeAgents, pc, idx, fac, constructed, applied, result, err,
                   instanceRet, merges, before>>
    /\ UNCHANGED <<envVars, concVars>>

Next ==
    \/ StartPass
    \/ MergeBase
    \/ MergePlatform
    \/ Construct
    \/ ReconcileResource
    \/ MutateInstance

Spec == Init /\ [][Next]_vars

----------------------------------------------------------------------------
(* The pass retried by its caller, with factories that are pure functions of *)
(* the instance and an apply primitive that is idempotent, never fails and   *)
(* reports a requeue finitely many times. Nothing writes to the parent or to *)
(* the resources between two calls.                                          *)

\* What a factory reads: the entry, and the elements of its toleration slice.
InstanceView(a, h) ==
    [ agent |-> a, tolerations |-> Elems(DaemonSetOf(a).Tolerations, h) ]

\* The desired object of factory k for entry a: its kind, its qualified name
\* and what the factory derives from the instance.
DesiredObject(a, k, h) ==
    [ kind |-> Factories[k],
      name |-> QualifiedName(a, "fluentbit"),
      from |-> InstanceView(a, h) ]

\* What the factory of a resource can return for an instance: what it returned
\* for that instance before, if it was called on it.
FactoryResults(key, view) ==
    IF produced[key] # Nil /\ produced[key][1].from = view
    THEN { produced[key][1].out }
    ELSE FactoryOutcomes

\* What the apply primitive can return for a desired object: no requeue and no
\* error when it holds that very object applied; otherwise no error, and a
\* requeue signal only while it has some left to report.
PrimitiveOutcomes(key, o) ==
    IF cluster[key] = Ptr(o) THEN {"ok"}
    ELSE {"ok"} \cup (IF requeuesLeft > 0 THEN RequeueSignals ELSE {})

\* The caller calls Reconciler.Reconcile: a first time, and again after a
\* call has returned.
Reinvoke ==
    /\ BeginPass
    /\ prevContinue' = (pc = "done" /\ result = Nil /\ err = Nil)
    /\ UNCHANGED <<cluster, produced, requeuesLeft, concVars>>

\* The factory call with a pure factory.
RetryConstruct ==
    /\ pc = "factory"
    /\ LET key == <<idx, fac>>
           view == InstanceView(nodeAgents[idx], heap)
       IN  \E out \in FactoryResults(key, view) :
             /\ ConstructOut(out)
             /\ produced' = [produced EXCEPT ![key] = Ptr([ from |-> view, out |-> out ])]
    /\ UNCHANGED <<cluster, requeuesLeft, prevContinue, concVars>>

\* The apply call with the idempotent primitive.
RetryReconcileResource ==
    /\ pc = "apply"
    /\ LET key == <<idx, fac>>
           o == DesiredObject(nodeAgents[idx], fac, heap)
       IN  \E out \in PrimitiveOutcomes(key, o) :
             /\ ReconcileResourceOut(out)
             /\ cluster' = IF out = "ok" THEN [cluster EXCEPT ![key] = Ptr(o)]
                           ELSE cluster
             /\ requeuesLeft' = IF out \in RequeueSignals THEN requeuesLeft - 1
                                ELSE requeuesLeft
    /\ UNCHANGED <<produced, prevContinue, concVars>>

\* A step of a running call.
PassStep ==
    \/ MergeBase
    \/ MergePlatform
    \/ RetryConstruct
    \/ RetryReconcileResource

RetryNext ==
    \/ Reinvoke
    \/ PassStep

\* The parents of the retried pass have no nil entry (a nil entry fails every
\* call at its first merge).
RetryInit ==
    /\ Init
    /\ \A i \in 1..Len(nodeAgents) : nodeAgents[i] # NilAgent

\* A running call goes on to its return (it is sequential code that waits for
\* nothing but the calls it makes), and the caller calls again.
RetrySpec ==
    /\ RetryInit
    /\ [][RetryNext]_vars
    /\ WF_vars(PassStep)
    /\ WF_vars(Reinvoke)

----------------------------------------------------------------------------
(* Two calls of Reconciler.Reconcile over two parents, running concurrently. *)
(* Each call has its own parent and its own position; the calls share the    *)
(* package-level profiles and the toleration array of the Windows profile.   *)

MaxConcurrentAgents == 1

\* The two concurrent calls.
Passes == {"first", "second"}

\* The user specs of the entries of the two parents.
ConcSpecs == { <<"empty", "windows">>, <<"account", "linux">> }

\* The lists of entries a parent of a concurrent call can have.
ConcParents ==
    UNION { { [ p \in 1..n |-> UserAgent(u[p], p) ] : u \in [1..n -> ConcSpecs] }
            : n \in 1..MaxConcurrentAgents }

\* Both Reconcilers built, each for its parent, before their calls.
ConcInit ==
    /\ InitPass
    /\ Len(nodeAgents) = 0
    /\ \E ps \in [Passes -> ConcParents] :
          /\ parents = ps
          /\ run = [ r \in Passes |->
                       [ pc |-> "idle", idx |-> 0, fac |-> 0, result |-> Nil,
                         err |-> Nil, input |-> ps[r], outs |-> <<>>,
                         written |-> FALSE ] ]

\* Call r returns (res, e).
PassReturn(rec, res, e) == [rec EXCEPT !.pc = "done", !.result = res, !.err = e]

\* instance.Reconcile of call r has returned (res, e) for the entry at idx: the
\* rest of the loop body of Reconciler.Reconcile, and the step to the next entry.
PassInstanceReturn(r, rec, res, e) ==
    LET top == AfterInstance(res, e, parents[r][rec.idx])
    IN  IF top.stop THEN PassReturn(rec, top.result, top.err)
        ELSE IF rec.idx < Len(parents[r])
             THEN [rec EXCEPT !.pc = "mergeBase", !.idx = @ + 1]
             ELSE PassReturn(rec, Nil, Nil)

\* Call r begins (its parent has an entry).
PassStart(r) ==
    /\ run[r].pc = "idle"
    /\ run' = [run EXCEPT ![r].pc = "mergeBase", ![r].idx = 1]
    /\ UNCHANGED <<parents, heap, passVars, envVars>>

\* err := mergo.Merge(a, NodeAgentFluentbitDefaults()) of call r.
PassMergeBase(r) ==
    /\ run[r].pc = "mergeBase"
    /\ LET i == run[r].idx
           a == parents[r][i]
       IN  IF MergeFails(a)
           THEN /\ run' = [run EXCEPT ![r] = PassReturn(@, Nil, Ptr(MergeError))]
                /\ UNCHANGED parents
           ELSE /\ parents' = [parents EXCEPT ![r][i] =
                                  Merge(a, NodeAgentFluentbitDefaults, heap)]
                /\ run' = [run EXCEPT ![r].pc = "mergePlatform"]
    /\ UNCHANGED <<heap, passVars, envVars>>

\* switch a.Type of call r: the merge of the package-level Windows or Linux
\* profile.
PassMergePlatform(r) ==
    /\ run[r].pc = "mergePlatform"
    /\ LET i == run[r].idx
           a == parents[r][i]
       IN  IF MergeFails(a)
           THEN /\ run' = [run EXCEPT ![r] = PassReturn(@, Nil, Ptr(MergeError))]
                /\ UNCHANGED parents
           ELSE /\ parents' = [parents EXCEPT ![r][i] =
                                  Merge(a, ProfileByName(PlatformName(a)), heap)]
                /\ run' = [run EXCEPT ![r].pc = "factory", ![r].fac = 1]
    /\ UNCHANGED <<heap, passVars, envVars>>

\* o, state, err := factory() of call r, and the two early returns.
PassConstruct(r) ==
    /\ run[r].pc = "factory"
    /\ \E out \in FactoryOutcomes :
         LET rec == [run[r] EXCEPT !.outs = Append(@, out)]
             f == AfterFactory(out, rec.fac)
         IN  run' = [run EXCEPT ![r] =
                        IF f.stop THEN PassInstanceReturn(r, rec, f.result, f.err)
                        ELSE [rec EXCEPT !.pc = "apply"]]
    /\ UNCHANGED <<parents, heap, passVars, envVars>>

\* result, err := n.reconciler.ReconcileResource(o, state) of call r, the two
\* early returns, and the step to the next factory.
PassReconcileResource(r) ==
    /\ run[r].pc = "apply"
    /\ \E out \in ApplyOutcomes :
         LET rec == [run[r] EXCEPT !.outs = Append(@, out)]
             ap == AfterApply(out, rec.fac)
         IN  run' = [run EXCEPT ![r] =
                        IF ap.stop THEN PassInstanceReturn(r, rec, ap.result, ap.err)
                        ELSE IF rec.fac < NumFactories
                             THEN [rec EXCEPT !.pc = "factory", !.fac = @ + 1]
                             ELSE PassInstanceReturn(r, rec, Nil, Nil)]
    /\ UNCHANGED <<parents, heap, passVars, envVars>>

\* Code that holds a merged instance of call r writes to an element of its
\* toleration slice in place.
PassMutateInstance(r) ==
    /\ run[r].pc = "done"
    /\ \E i \in 1..Len(parents[r]) :
         LET tol == DaemonSetOf(parents[r][i]).Tolerations
         IN  /\ SliceLen(tol, heap) > 0
             /\ heap[tol][1].Key # "mutated"
             /\ heap' = [heap EXCEPT ![tol][1].Key = "mutated"]
    /\ run' = [run EXCEPT ![r].written = TRUE]
    /\ UNCHANGED <<parents, passVars, envVars>>

ConcNext ==
    \E r \in Passes :
        \/ PassStart(r)
        \/ PassMergeBase(r)
        \/ PassMergePlatform(r)
        \/ PassConstruct(r)
        \/ PassReconcileResource(r)
        \/ PassMutateInstance(r)

ConcSpec == ConcInit /\ [][ConcNext]_vars

----------------------------------------------------------------------------
(* Properties of the pipeline *)

\* The records of a log as a set.
Records(log) == { log[j] : j \in 1..Len(log) }

\* The records of a log that belong to entry i, in order.
OfEntry(log, i) == SelectSeq(log, LAMBDA r : r.entry = i)

\* The order of the factories the specification fixes.
FactoryOrder ==
    << "serviceAccount", "clusterRole", "clusterRoleBinding",
       "clusterPodSecurityPolicy", "pspClusterRole", "pspClusterRoleBinding",
       "configSecret", "daemonSet", "serviceMetrics", "monitorServiceMetrics" >>

\* C1: when ReconcileResource returns a requeue signal for factory k of an
\* entry, that call is the last call of the pass (no later factory is
\* constructed or applied) and instance.Reconcile returns that very signal
\* and no error.
C1_RequeueStopsInstance ==
    \A j \in 1..Len(applied) :
        applied[j].out \in RequeueSignals =>
            /\ j = Len(applied)
            /\ constructed[Len(constructed)].entry = applied[j].entry
            /\ constructed[Len(constructed)].factory = applied[j].factory
            /\ \A c \in Records(constructed) :
                   ~(c.entry = applied[j].entry /\ c.factory > applied[j].factory)
            /\ instanceRet = Ptr([ entry |-> applied[j].entry,
                                   result |-> Ptr(applied[j].out),
                                   err |-> Nil ])

\* A requeue signal came back for a factory that is not the last of the list.
C1_Witness ==
    /\ Len(applied) > 0
    /\ applied[Len(applied)].out \in RequeueSignals
    /\ applied[Len(applied)].factory < NumFactories
    /\ instanceRet # Nil

\* C2: when instance.Reconcile returns a requeue signal for entry i, no later
\* entry is merged, built or reconciled in the pass, and Reconciler.Reconcile
\* returns that same signal and no error.
C2_RequeueStopsPass ==
    (instanceRet # Nil /\ instanceRet[1].result # Nil) =>
        LET i == instanceRet[1].entry
        IN  /\ pc = "done"
            /\ result = instanceRet[1].result
            /\ err = Nil
            /\ \A m \in Records(merges) : m.entry <= i
            /\ \A c \in Records(constructed) : c.entry <= i
            /\ \A r \in Records(applied) : r.entry <= i
            /\ \A j \in (i + 1)..Len(nodeAgents) : nodeAgents[j] = before[j]

\* The first of two entries was requeued.
C2_Witness ==
    /\ instanceRet # Nil
    /\ instanceRet[1].result # Nil
    /\ instanceRet[1].entry < Len(nodeAgents)
    /\ pc = "done"

\* The entries for which a factory call or an apply call failed in this pass.
FailedEntries ==
    { c.entry : c \in { c \in Records(constructed) : c.out \in {"err", "nilobj"} } }
        \cup { r.entry : r \in { r \in Records(applied) : r.out \in ApplyErrors } }

\* C3: with two entries or more, when a factory call or an apply call fails
\* for entry i, no apply call is issued for a later entry and the error the
\* pass returns carries the name of entry i and of no other entry.
C3_FailureNamesEntry ==
    Len(nodeAgents) >= 2 =>
        \A i \in FailedEntries :
            /\ pc = "done"
            /\ result = Nil
            /\ err # Nil
            /\ err[1].NodeName = before[i].Name
            /\ \A j \in 1..Len(before) :
                  (j # i /\ before[j] # NilAgent) => err[1].NodeName # before[j].Name
            /\ \A r \in Records(applied) : r.entry <= i

\* The first of two entries failed.
C3_Witness ==
    /\ Len(nodeAgents) >= 2
    /\ 1 \in FailedEntries
    /\ pc = "done"

\* C4: the apply calls issued for an entry are, in order, a prefix of the fixed
\* list; each but the last returned neither a requeue signal nor an error, and
\* each follows a factory call that produced its object.
C4_AppliesArePrefix ==
    \A i \in 1..Len(nodeAgents) :
        LET a == OfEntry(applied, i)
            c == OfEntry(constructed, i)
        IN  /\ Len(a) <= Len(FactoryOrder)
            /\ Len(a) <= Len(c)
            /\ \A j \in 1..Len(a) :
                   /\ a[j].name = FactoryOrder[j]
                   /\ c[j].name = FactoryOrder[j]
                   /\ c[j].out = "obj"
                   /\ j < Len(a) => a[j].out = "ok"

\* An entry went through the whole list, and another stopped inside it.
C4_Witness ==
    /\ Len(nodeAgents) >= 2
    /\ Len(OfEntry(applied, 1)) = Len(FactoryOrder)
    /\ Len(OfEntry(applied, 2)) = 3
    /\ pc = "done"

\* Every factory of every entry produced an object, and every apply call
\* returned neither a requeue signal nor an error.
AllSucceeded ==
    /\ \A c \in Records(constructed) : c.out = "obj"
    /\ \A r \in Records(applied) : r.out = "ok"
    /\ \A i \in 1..Len(nodeAgents) : \A k \in 1..Len(FactoryOrder) :
          /\ \E c \in Records(constructed) : c.entry = i /\ c.name = FactoryOrder[k]
          /\ \E r \in Records(applied) : r.entry = i /\ r.name = FactoryOrder[k]

\* C5: the pass returns nil, nil exactly when every factory of every entry
\* produced an object and every apply call returned neither a requeue signal
\* nor an error; then every factory of every entry was applied once, entry
\* by entry in the declared order.
C5_ContinueIffAllSucceeded ==
    pc = "done" =>
        /\ (result = Nil /\ err = Nil) <=> AllSucceeded
        /\ (result = Nil /\ err = Nil) =>
              /\ Len(applied) = Len(nodeAgents) * Len(FactoryOrder)
              /\ \A j \in 1..Len(applied) :
                    /\ applied[j].entry = ((j - 1) \div Len(FactoryOrder)) + 1
                    /\ applied[j].name = FactoryOrder[((j - 1) % Len(FactoryOrder)) + 1]

\* A pass over two entries returned nil, nil.
C5_Witness ==
    /\ pc = "done"
    /\ result = Nil
    /\ err = Nil
    /\ Len(nodeAgents) >= 2
    /\ Len(applied) > Len(FactoryOrder)

----------------------------------------------------------------------------
(* Properties of the defaulting *)

\* The scalar, pointer-to-scalar, mapping and sequence fields of an entry.
FieldNames ==
    { "Type", "Flush", "LogLevel", "MountPath", "StoragePath", "ServiceAccount",
      "RoleBasedAccessControlCreate", "NodeSelector", "Tolerations", "Containers" }

\* The pointer-to-structure fields of an entry.
PointerFieldNames == { "FluentbitSpec", "Security", "DaemonSetOverrides" }

\* The value of field f of entry a, the slices read in heap h.
FieldValue(a, f, h) ==
    CASE f = "Type" -> a.Type
      [] f = "Flush" -> FluentbitOf(a).Flush
      [] f = "LogLevel" -> FluentbitOf(a).LogLevel
      [] f = "MountPath" -> FluentbitOf(a).MountPath
      [] f = "StoragePath" -> FluentbitOf(a).StoragePath
      [] f = "ServiceAccount" -> SecurityOf(a).ServiceAccount
      [] f = "RoleBasedAccessControlCreate" -> SecurityOf(a).RoleBasedAccessControlCreate
      [] f = "NodeSelector" -> DaemonSetOf(a).NodeSelector
      [] f = "Tolerations" -> Elems(DaemonSetOf(a).Tolerations, h)
      [] f = "Containers" -> DaemonSetOf(a).Containers
      [] f = "FluentbitSpec" -> a.FluentbitSpec
      [] f = "Security" -> FluentbitOf(a).Security
      [] f = "DaemonSetOverrides" -> FluentbitOf(a).DaemonSetOverrides

\* Field f of entry a is set: not the zero value of its type (a pointer is
\* set when it is not nil, a mapping or a sequence when it is not empty).
FieldIsSet(a, f, h) ==
    CASE f \in {"Type", "LogLevel", "MountPath", "StoragePath", "ServiceAccount"} ->
            FieldValue(a, f, h) # ""
      [] f = "Flush" -> FieldValue(a, f, h) # 0
      [] f = "NodeSelector" -> FieldValue(a, f, h) # {}
      [] f \in {"Tolerations", "Containers"} -> Len(FieldValue(a, f, h)) # 0
      [] OTHER -> FieldValue(a, f, h) # Nil

\* A merge has just been made: by MergeBase, or by MergePlatform.
JustMerged == pc = "mergePlatform" \/ (pc = "factory" /\ fac = 1)

\* The last merge of the pass.
LastMerge == merges[Len(merges)]

\* Both merges have just been made into the entry at idx, and no factory has
\* been called for it yet.
JustDefaulted == pc = "factory" /\ fac = 1

\* The entry that has just been defaulted: as the pass found it (user), after
\* the merge of Base (based) and after the merge of the platform profile
\* (merged), with the heap of that moment.
Defaulted ==
    [ entry |-> idx,
      user |-> merges[Len(merges) - 1].dst,
      based |-> merges[Len(merges) - 1].after,
      platform |-> merges[Len(merges)].profile,
      merged |-> nodeAgents[idx],
      heap |-> heap ]

\* C6: every field that is set in an entry before the pass has the same value
\* after the merge of Base and of the platform profile. A pointer to a scalar
\* is set when it is not nil, and its value is the scalar; the fields of a
\* mapping are its keys, set when their value is not empty.
C6_UserFieldsKept ==
    JustDefaulted =>
        LET d == Defaulted
        IN  /\ d.user = before[idx]
            /\ \A f \in FieldNames \ {"NodeSelector"} :
                  FieldIsSet(d.user, f, d.heap) =>
                      FieldValue(d.merged, f, d.heap) = FieldValue(d.user, f, d.heap)
            /\ \A kv \in FieldValue(d.user, "NodeSelector", d.heap) :
                  kv[2] # "" => kv \in FieldValue(d.merged, "NodeSelector", d.heap)

\* C7: a merge gives every field that is unset in the entry and set in the
\* profile the profile's value: the merges of a pass, each checked when it has
\* been made, and the merge of each of the three profiles into each entry as a
\* pass finds it.
C7_FillOnEmpty ==
    /\ JustMerged =>
          LET m == LastMerge
          IN  /\ m.after = nodeAgents[idx]
              /\ \A f \in FieldNames \cup PointerFieldNames :
                    (/\ ~FieldIsSet(m.dst, f, heap)
                     /\ FieldIsSet(ProfileByName(m.profile), f, heap)) =>
                        FieldValue(m.after, f, heap)
                            = FieldValue(ProfileByName(m.profile), f, heap)
    /\ pc = "mergeBase" =>
          \A i \in 1..Len(nodeAgents) : \A p \in {"Base", "Windows", "Linux"} :
            \A f \in FieldNames \cup PointerFieldNames :
              (/\ ~MergeFails(nodeAgents[i])
               /\ ~FieldIsSet(nodeAgents[i], f, heap)
               /\ FieldIsSet(ProfileByName(p), f, heap)) =>
                  FieldValue(Merge(nodeAgents[i], ProfileByName(p), heap), f, heap)
                      = FieldValue(ProfileByName(p), f, heap)

\* Base filled the flush interval of an entry whose FluentbitSpec the user had
\* set, and then the Windows profile filled its tolerations.
C7_Witness ==
    /\ JustDefaulted
    /\ Defaulted.user.FluentbitSpec # Nil
    /\ Defaulted.user.FluentbitSpec[1].Flush = 0
    /\ Defaulted.based.FluentbitSpec[1].Flush = 1
    /\ LastMerge.profile = "Windows"
    /\ ~FieldIsSet(LastMerge.dst, "Tolerations", heap)
    /\ FieldValue(LastMerge.after, "Tolerations", heap) = WindowsTolerations

\* C8: the profiles hold their initial values (the toleration array of the
\* Windows profile is the one part of a profile that is shared with entries).
C8_ProfilesKeepInitialValues ==
    heap[WinArr] = WindowsTolerations

\* The platform merge finds FluentbitSpec and DaemonSetOverrides set by Base, so
\* it never makes an entry share a structure of the Windows or Linux profile.
PlatformMergeSharesNoStructure ==
    JustDefaulted =>
        /\ Defaulted.based.FluentbitSpec # Nil
        /\ Defaulted.based.FluentbitSpec[1].DaemonSetOverrides # Nil

C10_BasePrecedence ==
    JustDefaulted =>
        LET d == Defaulted
        IN  /\ d.user = before[idx]
            /\ \A f \in FieldNames :
                  (/\ FieldIsSet(NodeAgentFluentbitDefaults, f, d.heap)
                   /\ ~FieldIsSet(d.user, f, d.heap)) =>
                      FieldValue(d.merged, f, d.heap)
                          = FieldValue(NodeAgentFluentbitDefaults, f, d.heap)
            /\ ~FieldIsSet(d.user, "Flush", d.heap) =>
                  FieldValue(d.merged, "Flush", d.heap) = 1
            /\ \A f \in FieldNames :
                  FieldValue(d.merged, f, d.heap) # FieldValue(d.based, f, d.heap) =>
                      ~FieldIsSet(NodeAgentFluentbitDefaults, f, d.heap)

\* A Windows entry that left the flush interval and the mount path unset has
\* been defaulted: it carries Base's values for them and the profile's tolerations.
C10_Witness ==
    /\ JustDefaulted
    /\ Defaulted.platform = "Windows"
    /\ ~FieldIsSet(Defaulted.user, "Flush", heap)
    /\ ~FieldIsSet(Defaulted.user, "MountPath", heap)
    /\ FieldValue(Defaulted.merged, "Flush", heap) = 1
    /\ FieldValue(Defaulted.merged, "MountPath", heap) = "/var/lib/docker/containers"
    /\ DaemonSetOf(Defaulted.merged).Tolerations = WinArr

----------------------------------------------------------------------------
(* Properties of the pass: merge order, outcomes, failures, frame *)

\* The profiles merged into entry i in this pass, in order.
ProfilesMerged(i) ==
    [ j \in 1..Len(OfEntry(merges, i)) |-> OfEntry(merges, i)[j].profile ]

\* The platform profile the specification selects for a discriminator.
ProfileFor(type) == IF type = "windows" THEN "Windows" ELSE "Linux"

\* C11: the merges made into an entry are Base first and then one platform
\* profile, Windows exactly for the discriminator "windows" and Linux for
\* every other value (the empty one too); each merge is made into the entry as
\* the one before left it, and a factory or apply call for an entry comes
\* after both its merges.
C11_MergeOrder ==
    /\ \A i \in 1..Len(nodeAgents) :
          LET m == OfEntry(merges, i)
          IN  /\ Len(m) <= 2
              /\ Len(m) >= 1 => (m[1].profile = "Base" /\ m[1].dst = before[i])
              /\ Len(m) = 2 =>
                    /\ m[2].profile = ProfileFor(before[i].Type)
                    /\ m[2].dst = m[1].after
                    /\ (m[2].profile = "Windows") <=> (before[i].Type = "windows")
    /\ \A r \in Records(constructed) \cup Records(applied) :
          ProfilesMerged(r.entry) \in { <<"Base", "Windows">>, <<"Base", "Linux">> }

\* A pass is applying a Windows entry after an entry with the empty
\* discriminator, which got the Linux profile.
C11_Witness ==
    /\ pc = "apply"
    /\ idx = 2
    /\ before[1].Type = ""
    /\ before[2].Type = "windows"
    /\ ProfilesMerged(1) = <<"Base", "Linux">>
    /\ ProfilesMerged(2) = <<"Base", "Windows">>

\* The calls of this pass that returned an error or a nil object.
FailedCalls ==
    { c \in Records(constructed) : c.out \in {"err", "nilobj"} }
        \cup { r \in Records(applied) : r.out \in ApplyErrors }

\* The outcome of a return (res, e).
Outcome(res, e) ==
    CASE res = Nil /\ e = Nil -> "Continue"
      [] res # Nil /\ e = Nil -> "Requeue"
      [] res = Nil /\ e # Nil -> "Failure"
      [] OTHER -> "both"

\* C14: a return of the pass or of instance.Reconcile is Continue, Requeue or
\* Failure, never a requeue signal together with an error. At most one call of
\* a pass fails; it is the last call of the pass, the pass returns its error
\* (a Failure), and an error the pass returns without a failed call is the
\* error of a merge, met before any call for that entry.
C14_ThreeOutcomes ==
    /\ pc = "done" => Outcome(result, err) \in {"Continue", "Requeue", "Failure"}
    /\ pc # "done" => (result = Nil /\ err = Nil)
    /\ instanceRet # Nil =>
          Outcome(instanceRet[1].result, instanceRet[1].err)
              \in {"Continue", "Requeue", "Failure"}
    /\ Cardinality(FailedCalls) <= 1
    /\ \A c \in FailedCalls :
          /\ pc = "done"
          /\ Outcome(result, err) = "Failure"
          /\ c.entry = idx /\ c.factory = fac
          /\ constructed[Len(constructed)].entry = idx
          /\ constructed[Len(constructed)].factory = fac
          /\ \A r \in Records(applied) :
                r.entry < idx \/ (r.entry = idx /\ r.factory <= fac)
          /\ c \in Records(applied) => applied[Len(applied)] = c
          /\ c \in Records(constructed) =>
                \A r \in Records(applied) : ~(r.entry = idx /\ r.factory = fac)
          /\ err[1].Cause =
                IF c \in Records(applied) THEN ResourceError(c.factory)
                ELSE IF c.out = "nilobj" THEN NilObjectError ELSE CreateError
    /\ (pc = "done" /\ err # Nil /\ FailedCalls = {}) =>
          /\ err = Ptr(MergeError)
          /\ \A r \in Records(constructed) \cup Records(applied) : r.entry < idx

\* ReconcileResource returned a result together with an error, and the pass
\* returned a Failure.
C14_Witness ==
    /\ pc = "done"
    /\ Len(applied) > 0
    /\ applied[Len(applied)].out = "errWithResult"
    /\ Outcome(result, err) = "Failure"
    /\ Outcome(instanceRet[1].result, instanceRet[1].err) = "Failure"

----------------------------------------------------------------------------
(* Properties of the defaulting under a pointer the user has set *)

\* The pointer fields on the path from an entry to field f.
Ancestors(f) ==
    CASE f \in {"Flush", "LogLevel", "MountPath", "StoragePath", "Security",
                "DaemonSetOverrides"} -> {"FluentbitSpec"}
      [] f \in {"ServiceAccount", "RoleBasedAccessControlCreate"} ->
            {"FluentbitSpec", "Security"}
      [] f \in {"NodeSelector", "Tolerations", "Containers"} ->
            {"FluentbitSpec", "DaemonSetOverrides"}
      [] OTHER -> {}

\* The fields the user left unset under a pointer the user set.
UnsetUnderSetPointer(a, h) ==
    { f \in FieldNames \cup PointerFieldNames :
        /\ ~FieldIsSet(a, f, h)
        /\ \E p \in Ancestors(f) : FieldIsSet(a, p, h) }

\* C15, as stated: a field the user left unset under a pointer the user set is
\* still unset after the merge of Base and of the platform profile.
C15_NoBackfill ==
    JustDefaulted =>
        \A f \in UnsetUnderSetPointer(Defaulted.user, Defaulted.heap) :
            ~FieldIsSet(Defaulted.merged, f, Defaulted.heap)

\* C15, amended: a field the user left unset under a pointer the user set
\* carries Base's value when Base sets it, otherwise the value of the platform
\* profile when that profile sets it, and is unset only when neither sets it; a
\* pointer to a structure that Base sets is set.
C15_NestedBackfilled ==
    JustDefaulted =>
        LET d == Defaulted
            platform == ProfileByName(d.platform)
        IN  /\ d.user = before[idx]
            /\ \A f \in UnsetUnderSetPointer(d.user, d.heap) \cap FieldNames :
                  FieldValue(d.merged, f, d.heap) =
                      IF FieldIsSet(NodeAgentFluentbitDefaults, f, d.heap)
                      THEN FieldValue(NodeAgentFluentbitDefaults, f, d.heap)
                      ELSE FieldValue(platform, f, d.heap)
            /\ \A f \in UnsetUnderSetPointer(d.user, d.heap) \cap PointerFieldNames :
                  FieldIsSet(NodeAgentFluentbitDefaults, f, d.heap) =>
                      FieldIsSet(d.merged, f, d.heap)

\* An entry whose user set the security settings with a service account and
\* no RBAC flag has been defaulted: the flag is Base's true.
C15_Witness ==
    /\ JustDefaulted
    /\ FieldIsSet(Defaulted.user, "Security", heap)
    /\ FieldIsSet(Defaulted.user, "ServiceAccount", heap)
    /\ ~FieldIsSet(Defaulted.user, "RoleBasedAccessControlCreate", heap)
    /\ FieldValue(Defaulted.merged, "RoleBasedAccessControlCreate", heap) = Ptr(TRUE)
    /\ ~FieldIsSet(Defaulted.user, "DaemonSetOverrides", heap)
    /\ FieldIsSet(Defaulted.merged, "DaemonSetOverrides", heap)

----------------------------------------------------------------------------
(* Properties of a failed construction *)

\* C16: when a factory returns a nil object or an error, instance.Reconcile
\* returns a Failure (the nil-object error, or the wrapped factory error),
\* ReconcileResource is not called for that factory, the call is the last call
\* of the pass, and the pass returns a Failure.
C16_ConstructionFailureAborts ==
    \A j \in 1..Len(constructed) :
        LET c == constructed[j]
        IN  c.out \in {"nilobj", "err"} =>
              /\ j = Len(constructed)
              /\ \A r \in Records(applied) :
                    r.entry < c.entry \/ (r.entry = c.entry /\ r.factory < c.factory)
              /\ Len(OfEntry(applied, c.entry)) = c.factory - 1
              /\ instanceRet =
                    Ptr([ entry |-> c.entry,
                          result |-> Nil,
                          err |-> Ptr(IF c.out = "nilobj" THEN NilObjectError
                                      ELSE CreateError) ])
              /\ pc = "done"
              /\ result = Nil
              /\ err # Nil

\* A factory that is neither the first nor the last returned a nil object for
\* the first of two entries.
C16_Witness ==
    /\ Len(nodeAgents) = 2
    /\ Len(constructed) > 1
    /\ constructed[Len(constructed)].out = "nilobj"
    /\ constructed[Len(constructed)].entry = 1
    /\ constructed[Len(constructed)].factory < NumFactories
    /\ pc = "done"

----------------------------------------------------------------------------
(* Properties of the context a Failure carries *)

\* C17: the error a pass returns carries the name of the entry at which the
\* pass stopped, whichever step failed (a merge, a factory, an apply call),
\* and the error of an apply call carries the kind of the resource applied.
C17_FailureCarriesContext ==
    (pc = "done" /\ err # Nil) =>
        /\ "NodeName" \in DOMAIN err[1]
        /\ err[1].NodeName = before[idx].Name
        /\ \A r \in Records(applied) :
              r.out \in ApplyErrors => err[1].Cause.Resource = FactoryOrder[r.factory]

----------------------------------------------------------------------------
(* The frame of a pass *)

\* The entry a as both merges leave it.
DefaultedEntry(a, h) ==
    LET based == Merge(a, NodeAgentFluentbitDefaults, h)
    IN  Merge(based, ProfileByName(PlatformName(based)), h)

\* C19: a pass merges into the parent's entries in place, one entry at a time:
\* the list keeps its length and order, every entry before the one the pass is
\* at carries both merges, and every entry after it is as it was before the
\* pass. So it is when the pass has stopped at entry idx with a Requeue or a
\* Failure.
C19_AbortedPassFrame ==
    /\ Len(nodeAgents) = Len(before)
    /\ \A j \in 1..Len(nodeAgents) :
          /\ (nodeAgents[j] = NilAgent) <=> (before[j] = NilAgent)
          /\ nodeAgents[j] # NilAgent =>
                (nodeAgents[j].Name = before[j].Name /\ nodeAgents[j].Type = before[j].Type)
          /\ j > idx => nodeAgents[j] = before[j]
          /\ (j < idx \/ (j = idx /\ pc \in {"factory", "apply"})) =>
                nodeAgents[j] = DefaultedEntry(before[j], heap)
    /\ (pc = "done" /\ Outcome(result, err) # "Continue") =>
          /\ idx >= 1
          /\ \A j \in (idx + 1)..Len(nodeAgents) : nodeAgents[j] = before[j]

\* A pass over two entries stopped at the first, which it has changed; the
\* second, which a merge would change, is as it was.
C19_Witness ==
    /\ pc = "done"
    /\ Outcome(result, err) \in {"Requeue", "Failure"}
    /\ Len(nodeAgents) = 2
    /\ idx = 1
    /\ nodeAgents[1] # before[1]
    /\ before[2] # NilAgent
    /\ DefaultedEntry(before[2], heap) # before[2]
    /\ nodeAgents[2] = before[2]

----------------------------------------------------------------------------
(* The service account of an instance *)

\* The name the specification gives the service account of entry p when the
\* user names none: "<parent-name>-<node-agent-name>-fluentbit".
DefaultAccountOf(p) ==
    CASE p = 1 -> "logging-agent1-fluentbit"
      [] p = 2 -> "logging-agent2-fluentbit"
      [] OTHER -> "logging-agent" \o ToString(p) \o "-fluentbit"

\* C20: the instance handed to the factories has its fluentbit spec and its
\* security settings set, so getServiceAccount reads through no nil pointer;
\* it returns the service account the user named, and otherwise
\* "<parent-name>-<node-agent-name>-fluentbit".
C20_ServiceAccount ==
    pc \in {"factory", "apply"} =>
        LET a == nodeAgents[idx]
            user == SecurityOf(OfEntry(merges, idx)[1].dst).ServiceAccount
        IN  /\ a.FluentbitSpec # Nil
            /\ a.FluentbitSpec[1].Security # Nil
            /\ getServiceAccount(a) # NilDereference
            /\ getServiceAccount(a) = IF user # "" THEN user ELSE DefaultAccountOf(idx)

\* The factories are handed the second entry, whose user set the fluentbit
\* spec and left the security settings unset; the first names its account.
C20_Witness ==
    /\ pc = "factory"
    /\ idx = 2
    /\ before[2].FluentbitSpec # Nil
    /\ before[2].FluentbitSpec[1].Security = Nil
    /\ getServiceAccount(nodeAgents[2]) = "logging-agent2-fluentbit"
    /\ getServiceAccount(nodeAgents[1]) = "sa"

----------------------------------------------------------------------------
(* Properties of repeated passes *)

\* C12: in a call that follows a call that returned nil, nil, no merge changes
\* an entry (the merged instances are those of the call before), every factory
\* produces its object, every desired object handed to the apply primitive is
\* the one it holds applied, every apply call returns no requeue and no error,
\* and the call returns nil, nil after applying every factory of every entry.
C12_RepeatedPassIdempotent ==
    prevContinue =>
        /\ nodeAgents = before
        /\ \A m \in Records(merges) : m.after = m.dst
        /\ \A c \in Records(constructed) : c.out = "obj"
        /\ \A r \in Records(applied) : r.out = "ok"
        /\ pc = "apply" =>
              cluster[<<idx, fac>>] = Ptr(DesiredObject(nodeAgents[idx], fac, heap))
        /\ pc = "done" =>
              /\ result = Nil
              /\ err = Nil
              /\ Len(applied) = Len(nodeAgents) * Len(FactoryOrder)

\* The call after a call that returned nil, nil has returned, for a parent
\* with a Windows entry that shares the profile's tolerations and an entry
\* whose user set part of the spec.
C12_Witness ==
    /\ prevContinue
    /\ pc = "done"
    /\ Len(nodeAgents) = 2
    /\ Len(applied) = 2 * Len(FactoryOrder)
    /\ DaemonSetOf(nodeAgents[1]).Tolerations = WinArr
    /\ SecurityOf(nodeAgents[2]).ServiceAccount = "sa"

\* A call has returned nil, nil after applying every factory of every entry.
Converged ==
    /\ pc = "done"
    /\ result = Nil
    /\ err = Nil
    /\ \A i \in 1..Len(nodeAgents) : \A k \in 1..Len(FactoryOrder) :
          \E r \in Records(applied) :
              r.entry = i /\ r.name = FactoryOrder[k] /\ r.out = "ok"

\* No factory call of the running or last call returned an error or a nil
\* object.
NoFactoryFailed == \A c \in Records(constructed) : c.out = "obj"

----------------------------------------------------------------------------
(* Concurrent passes *)

\* The toleration arrays as the program starts, with no array of a user.
ProfileHeap == [ id \in ArrIds |-> IF id = WinArr THEN WindowsTolerations ELSE <<>> ]

\* What the entries of a parent are to their reader: each entry, and the
\* elements of its toleration slice.
Deref(entries, h) ==
    [ j \in 1..Len(entries) |->
        [ agent |-> entries[j],
          tolerations |-> Elems(DaemonSetOf(entries[j]).Tolerations, h) ] ]

\* Reconciler.Reconcile run alone, from entry i and factory k on, its factory
\* and apply calls returning outs in turn: the entries it leaves and what it
\* returns.
RECURSIVE RunAlone(_, _, _, _)
RunAlone(entries, i, k, outs) ==
    IF i > Len(entries) \/ outs = <<>>
    THEN [ nodeAgents |-> entries, result |-> Nil, err |-> Nil ]
    ELSE LET merged == IF k = 1
                       THEN [entries EXCEPT ![i] = DefaultedEntry(entries[i], ProfileHeap)]
                       ELSE entries
             f == AfterFactory(outs[1], k)
             ap == AfterApply(outs[2], k)
             inst == IF f.stop THEN f
                     ELSE IF ap.stop THEN ap
                     ELSE [ stop |-> k = NumFactories, result |-> Nil, err |-> Nil ]
             top == AfterInstance(inst.result, inst.err, merged[i])
         IN  IF ~inst.stop THEN RunAlone(merged, i, k + 1, Tail(Tail(outs)))
             ELSE IF top.stop
                  THEN [ nodeAgents |-> merged, result |-> top.result, err |-> top.err ]
                  ELSE RunAlone(merged, i + 1, 1, Tail(Tail(outs)))

\* Call r has returned what it returns when run alone, and has left the
\* entries of its parent as it leaves them when run alone.
AsAlone(r) ==
    LET alone == RunAlone(run[r].input, 1, 1, run[r].outs)
    IN  /\ Deref(parents[r], heap) = Deref(alone.nodeAgents, ProfileHeap)
        /\ run[r].result = alone.result
        /\ run[r].err = alone.err

PassesIndependentBeforeWrite ==
    (\A q \in Passes : ~run[q].written) =>
        \A r \in Passes : run[r].pc = "done" => AsAlone(r)

============================================================================
